---- MODULE Spec2Model ----
(***************************************************************************)
(* A model of the "Guided Tour of Ray Core" notebooks.  The driver is the  *)
(* notebook kernel, which runs the code cells of one notebook top to       *)
(* bottom; the runtime is the object store, the tasks and the actors the   *)
(* cells create, with the behaviour the notebooks document for each call   *)
(* (remote, put, get, actor methods).  One behaviour of the model is one   *)
(* run of one notebook.                                                    *)
(***************************************************************************)
EXTENDS Integers, Sequences, FiniteSets, TLC

VARIABLES nb,       \* the notebook being run
          pc,       \* the driver's position: the next statement to run
          rt,       \* the runtime: "down", "up" (after ray.init) or "stopped"
          store,    \* object store: store[r] is <<>> (no value yet) or <<v>>
          tasks,    \* tasks, keyed by the ObjectRef of their return value
          actors,   \* actors: their state, their queued and running calls
          avail,    \* history: the order in which traced tasks finished
          loc,      \* the driver's local Python variables
          got,      \* what each ray.get call returned, in call order
          out       \* what the cells printed, in order

vars == <<nb, pc, rt, store, tasks, actors, avail, loc, got, out>>

(***************************************************************************)
(* Program constants.                                                      *)
(***************************************************************************)
\* for i in range(4): the number of slow_function calls
NumCalls == 4
\* random.randint(0, 9): the largest value slow_function returns
RandMax == 9
\* range(3) in ray.get([ray.put(i) for i in range(3)])
NumPuts == 3
\* time.sleep(10) in long_running_function
SleepSecs == 10
\* ray.get(obj_ref, timeout=6)
Timeout == 6
\* the text the handler prints (the source writes get between backquotes)
TimedOutMsg == "'get' timed out"
\* range(3): the increments of the list comprehension
NumIncs == 3
\* randint(1, 5): the goals of one score
MinGoals == 1
MaxGoals == 5
\* The players the three GoalsScored actors are created for
Players == <<"Ronaldo", "Neymar", "Messi">>
\* items = [1, 2, 3, 4, 5]
Items == <<1, 2, 3, 4, 5>>
\* num_shards=2
NumShards == 2
\* window_width = 20
window_width == 20
\* from_items(nb_items, num_shards=3)
NumShards2 == 3

(***************************************************************************)
(* Bounds of the model.                                                    *)
(***************************************************************************)
\* the longest num_list the driver puts into the object store
MaxLen == 3
\* the number of elements of the arrays in dat/file_1.txt and dat/file_2.txt
ArrLen == 2
\* the largest element of those arrays
MaxElem == 1
\* The samples of one estimate of pi
MaxSamples == 2
\* The trials of one epoch; the program wants at least 2, to be able to
\* calculate the standard deviation
MinTrials == 2
MaxTrials == 3
\* The length of the input of pool.map, in place of the 50 of range(50)
MapLen == 3
\* The notebook files read into nb_items
MaxDocs == 2
\* The processes of a Pool(): the number of cores
NumProcs == 2

Notebooks == {"tour", "remo_objs", "remo_func", "remo_meth", "pi",
              "mult_pool", "para_iter"}

\* The notebooks for which the order in which tasks finish is recorded (a
\* history the program does not keep; it does not change what the program
\* does).
Traced == nb \in {"pi", "mult_pool"}

\* The notebooks that wait with a timeout: only there is the clock
\* observable, and only there is it modelled; elsewhere a sleep is a delay
\* of unknown length.
Timed == nb = "remo_objs"

(***************************************************************************)
(* Python values: every value carries its type.                            *)
(***************************************************************************)
PyInt(n) == [t |-> "int", v |-> n]
PyList(s) == [t |-> "list", v |-> s]
PyStr(s) == [t |-> "str", v |-> s]
PyNone == [t |-> "None", v |-> 0]
PyTuple(s) == [t |-> "tuple", v |-> s]
\* range(n)
Range(n) == [i \in 1..n |-> i - 1]

\* The list xs cut into chunks of c elements, the last one possibly shorter.
Chunks(xs, c) ==
    [k \in 1..((Len(xs) + c - 1) \div c) |->
       SubSeq(xs, (k - 1) * c + 1,
              IF k * c < Len(xs) THEN k * c ELSE Len(xs))]

\* The concatenation of the lists of ss.
RECURSIVE Flatten(_)
Flatten(ss) == IF ss = <<>> THEN <<>> ELSE Head(ss) \o Flatten(Tail(ss))

\* An iterator that has no item left raises StopIteration.
StopIteration == [t |-> "StopIteration", v |-> 0]

\* The elements of xs that f sends to s, in the order of xs.
RECURSIVE Select(_, _, _, _)
Select(xs, f, s, i) ==
    IF i > Len(xs) THEN <<>>
    ELSE (IF f[i] = s THEN <<xs[i]>> ELSE <<>>) \o Select(xs, f, s, i + 1)

\* The ways to partition the list xs into k shards.
Shards(xs, k) ==
    {[s \in 1..k |-> Select(xs, f, s, 1)] : f \in [DOMAIN xs -> 1..k]}

\* A float, kept as the exact fraction v / d
PyFloat(n, d) == [t |-> "float", v |-> n, d |-> d]

RECURSIVE SumSeq(_)
\* sum(num_list)
SumSeq(s) == IF s = <<>> THEN 0 ELSE Head(s) + SumSeq(Tail(s))

RECURSIVE AddSeq(_, _)
\* np.add(a1, a2) of two arrays of one shape
AddSeq(a1, a2) ==
    IF a1 = <<>> \/ a2 = <<>> THEN <<>>
    ELSE <<Head(a1) + Head(a2)>> \o AddSeq(Tail(a1), Tail(a2))

\* The arrays a data file may hold.
Arrays == [1..ArrLen -> 0..MaxElem]

\* An argument of a remote call: an object reference, or a value.
Ref(r) == [k |-> "ref", r |-> r, v |-> PyNone]
Lit(v) == [k |-> "val", r |-> 0, v |-> v]

\* The lists the driver may put: the notebook's [ 23, 42, 93 ] and the other
\* lists of those numbers of at most MaxLen elements.
NumLists == UNION {[1..n -> {23, 42, 93}] : n \in 0..MaxLen}

(***************************************************************************)
(* The functions the notebooks decorate with @ray.remote.  Each gives the  *)
(* set of values a call may return for the argument values argv.           *)
(***************************************************************************)
\* tour: def my_function (): return 42
my_function == {PyInt(42)}

\* tour: def slow_function (): time.sleep(10); return random.randint(0, 9)
slow_function == {PyInt(v) : v \in 0..RandMax}

\* remo_objs: def my_function (num_list): return sum(num_list)
my_function_sum(num_list) == {PyInt(SumSeq(num_list.v))}

\* remo_objs: def long_running_function (): time.sleep(10); return 42
long_running_function == {PyInt(42)}

\* remo_func: def read_array(fn): arr = loadtxt(fn, ...); return arr.astype('int')
read_array(fn) == {PyList(loc.dat[fn.v])}

\* remo_func: def add_array(a1, a2): return np.add(a1, a2)
add_array(a1, a2) == {PyList(AddSeq(a1.v, a2.v))}

\* remo_func: def sum_arr(a1): return a1.sum()
sum_arr(a1) == {PyInt(SumSeq(a1.v))}

\* mult_pool: def my_function (x): time.sleep(1); return x ** 2
RECURSIVE Pow(_, _)
Pow(x, e) == IF e = 0 THEN 1 ELSE x * Pow(x, e - 1)

my_function_x(x) == PyInt(Pow(x.v, 2))

\* [my_function(x) for x in chunk]
MapChunk(chunk) == [i \in DOMAIN chunk |-> my_function_x(PyInt(chunk[i]))]

\* pi: def estimate_pi (num_samples): 4.0 * in_circle / num_samples, where
\* in_circle is the number of the num_samples random points that fall inside
\* the circle
estimate_pi(num_samples) ==
    {PyFloat(4 * in_circle, num_samples) : in_circle \in 0..num_samples}

\* pi: def distrib_estimate_pi (num_samples): return estimate_pi(num_samples)
distrib_estimate_pi(num_samples) == estimate_pi(num_samples.v)

\* statistics.mean(pis), for estimates that have one denominator
Mean(pis) ==
    PyFloat(SumSeq([k \in DOMAIN pis |->
                      IF pis[k] = <<>> THEN 0 ELSE pis[k][1].v]),
            Len(pis) * (IF pis = <<>> \/ pis[1] = <<>> THEN 1 ELSE pis[1][1].d))

\* The numerators of the estimates pis (0 for an estimate that is missing).
Nums(pis) == [k \in DOMAIN pis |-> IF pis[k] = <<>> THEN 0 ELSE pis[k][1].v]

\* The denominator of the estimates pis.
Den(pis) == IF pis = <<>> \/ pis[1] = <<>> THEN 1 ELSE pis[1][1].d

\* The squares of the numbers of s.
Squares(s) == [k \in DOMAIN s |-> s[k] * s[k]]

\* statistics.stdev raises StatisticsError for fewer than two values.
StatisticsError == [t |-> "StatisticsError", v |-> 0]

\* statistics.stdev(pis), for estimates v[k] / d that have one denominator:
\* the square root of (n * sum(v^2) - sum(v)^2) / (n * (n - 1) * d^2), kept
\* as the fraction under the root.
Stdev(pis) ==
    IF Len(pis) < 2 THEN StatisticsError
    ELSE [t |-> "sqrt",
          v |-> Len(pis) * SumSeq(Squares(Nums(pis)))
                  - SumSeq(Nums(pis)) * SumSeq(Nums(pis)),
          d |-> Len(pis) * (Len(pis) - 1) * Den(pis) * Den(pis)]

\* 100.0 * abs(approx_pi - np.pi) / np.pi, kept as the fraction it is
\* computed from.
Error(approx_pi) == [t |-> "error", v |-> approx_pi.v, d |-> approx_pi.d]

\* time.time() - start: the clock is not modelled.
Duration == [t |-> "duration", v |-> 0]

\* A task's function raises when it is handed something that is not a value.
Returns(fn, argv) ==
    IF \E k \in DOMAIN argv : argv[k] = <<>> THEN {PyNone}
    ELSE CASE fn = "my_function" -> my_function
           [] fn = "slow_function" -> slow_function
           [] fn = "my_function_sum" -> my_function_sum(argv[1][1])
           [] fn = "long_running_function" -> long_running_function
           [] fn = "read_array" -> read_array(argv[1][1])
           [] fn = "add_array" -> add_array(argv[1][1], argv[2][1])
           [] fn = "sum_arr" -> sum_arr(argv[1][1])
           [] fn = "distrib_estimate_pi" -> distrib_estimate_pi(argv[1][1])

\* The seconds a function sleeps before it returns.
Sleeps(fn) ==
    IF fn \in {"slow_function", "long_running_function"} THEN SleepSecs ELSE 0

(***************************************************************************)
(* The runtime.                                                            *)
(***************************************************************************)
NoRef == 0
Refs == DOMAIN store
HasValue(r) == r \in Refs /\ store[r] # <<>>

\* ray.init(...): start the runtime on the local host.
RayInit ==
    /\ pc = "init"
    /\ rt = "down"
    /\ rt' = "up"
    /\ pc' = "start"
    /\ UNCHANGED <<nb, actors, avail, store, tasks, loc, got, out>>

\* Mutant of RayShutdown: the cell that shuts the runtime down is also run
\* before the cells that come before it.
RayShutdown_early ==
    /\ pc \notin {"init", "done"}
    /\ rt = "up"
    /\ rt' = "stopped"
    /\ pc' = IF pc = "shutdown" THEN "done" ELSE pc
    /\ UNCHANGED <<nb, actors, avail, store, tasks, loc, got, out>>

\* ray.shutdown()
RayShutdown ==
    /\ pc = "shutdown"
    /\ rt = "up"
    /\ rt' = "stopped"
    /\ pc' = "done"
    /\ UNCHANGED <<nb, actors, avail, store, tasks, loc, got, out>>

\* No actor: the task is a call of a remote function.
NoActor == 0

\* The reference the next put or remote call returns.
NewRef == Len(store) + 1

\* Mutant of Put: the new object takes the place of the last object of the
\* store instead of a place of its own.
Put_collide(v) ==
    /\ rt' = "up"
    /\ store' = IF store = <<>> THEN <<<<v>>>>
                 ELSE [store EXCEPT ![Len(store)] = <<v>>]

\* ray.put(v): place v into the object store under a new reference.  A call
\* to Ray made while the runtime is not up launches it: after put, remote or
\* get the runtime is up, whether ray.init was called or not.
Put(v) ==
    /\ rt' = "up"
    /\ store' = Append(store, <<v>>)

\* f.remote(args): return an object ref at once and create a task that a
\* worker process will execute; the object has no value until the task has
\* finished.
SubmitTask(fn, args) ==
    /\ store' = Append(store, <<>>)
    /\ tasks' = tasks @@ (NewRef :> [fn |-> fn, args |-> args, argv |-> <<>>,
                                     st |-> "pending", slept |-> 0,
                                     ret |-> <<>>, actor |-> NoActor])

Submit(fn, args) ==
    /\ rt' = "up"
    /\ SubmitTask(fn, args)

\* The value a task is handed for an argument: the value of the object for
\* a reference (nothing while the object has none), the value itself
\* otherwise.
Resolve(arg) == IF arg.k = "ref" THEN store[arg.r] ELSE <<arg.v>>

\* Mutant of TaskStart: the task starts without waiting for its arguments.
TaskStart_noWait(r) ==
    /\ rt = "up"
    /\ tasks[r].actor = NoActor
    /\ tasks[r].st = "pending"
    /\ tasks' = [tasks EXCEPT ![r].st = "running",
                              ![r].argv = [k \in DOMAIN tasks[r].args |->
                                             Resolve(tasks[r].args[k])]]
    /\ UNCHANGED <<nb, actors, avail, pc, rt, store, loc, got, out>>

\* Object references passed as arguments are resolved when the task is
\* executed: a worker starts the task once every argument has a value, and
\* hands the function the values.
TaskStart(r) ==
    /\ rt = "up"
    /\ tasks[r].actor = NoActor
    /\ tasks[r].st = "pending"
    /\ \A k \in DOMAIN tasks[r].args :
          tasks[r].args[k].k = "ref" => HasValue(tasks[r].args[k].r)
    /\ tasks' = [tasks EXCEPT ![r].st = "running",
                              ![r].argv = [k \in DOMAIN tasks[r].args |->
                                             Resolve(tasks[r].args[k])]]
    /\ UNCHANGED <<nb, actors, avail, pc, rt, store, loc, got, out>>

\* The task's function returns (after its sleep): the value it returns
\* becomes the value of the task's object.
TaskFinish(r) ==
    /\ rt = "up"
    /\ tasks[r].actor = NoActor
    /\ tasks[r].st = "running"
    /\ Timed => tasks[r].slept >= Sleeps(tasks[r].fn)
    /\ \E v \in Returns(tasks[r].fn, tasks[r].argv) :
         /\ tasks' = [tasks EXCEPT ![r].st = "finished", ![r].ret = <<v>>]
         /\ store' = [store EXCEPT ![r] = <<v>>]
    /\ avail' = IF Traced THEN Append(avail, r) ELSE avail
    /\ UNCHANGED <<nb, actors, pc, rt, loc, got, out>>

\* Mutant of Ready: ray.get does not block.
Ready_noWait(r) == r \in Refs

\* ray.get(r) can return: a blocking call while the task is not finished.
Ready(r) == HasValue(r)

\* ray.get(r): block until the object has a value, then return that value.
Get(r) ==
    /\ rt' = "up"
    /\ Ready(r)
    /\ got' = Append(got, [ref |-> r, val |-> store[r]])

\* Mutant of GetList: the values come in the order in which the tasks
\* finished.
GetList_asFinished(refs) ==
    IF Len(avail) = Len(refs) THEN [k \in DOMAIN refs |-> store[avail[k]]]
    ELSE [k \in DOMAIN refs |-> store[refs[k]]]

\* ray.get(refs) for a list: the list of the values of the references.
GetList(refs) == [k \in DOMAIN refs |-> store[refs[k]]]

\* The driver is inside ray.get(obj_ref, timeout=6).
InTimedGet == nb = "remo_objs" /\ pc = "get_timeout"

\* One second passes, for every sleeping task and for a get that waits with
\* a timeout.  The get does not wait past its timeout.
Tick ==
    /\ Timed
    /\ rt = "up"
    /\ ~(InTimedGet /\ loc.waited = Timeout)
    /\ \/ InTimedGet
       \/ \E r \in DOMAIN tasks :
            tasks[r].st = "running" /\ tasks[r].slept < Sleeps(tasks[r].fn)
    /\ tasks' = [r \in DOMAIN tasks |->
                   IF tasks[r].st = "running" /\ tasks[r].slept < Sleeps(tasks[r].fn)
                   THEN [tasks[r] EXCEPT !.slept = @ + 1]
                   ELSE tasks[r]]
    /\ loc' = IF InTimedGet THEN [loc EXCEPT !.waited = @ + 1] ELSE loc
    /\ UNCHANGED <<nb, actors, avail, pc, rt, store, got, out>>

(***************************************************************************)
(* Actors (remote classes): stateful, with message-passing semantics.  An  *)
(* actor holds the state of one instance of its class, a queue of the      *)
(* method calls sent to it, in the order they were sent, and the call it   *)
(* is executing.                                                           *)
(***************************************************************************)
\* Counter.__init__: self.value = 0
Counter_init == [value |-> 0]

\* Counter.increment: self.value += 1; return self.value
Counter_increment(self) ==
    {[st |-> [self EXCEPT !.value = @ + 1], ret |-> PyInt(self.value + 1)]}

\* GoalsScored.__init__: self._goals = 0; self._player = player
GoalsScored_init(player) == [_goals |-> 0, _player |-> player]

\* GoalsScored.score: self._goals += randint(1, 5); return self._goals
GoalsScored_score(self) ==
    {[st |-> [self EXCEPT !._goals = @ + g], ret |-> PyInt(self._goals + g)] :
        g \in MinGoals..MaxGoals}

\* GoalsScored.player: return self._player
GoalsScored_player(self) == {[st |-> self, ret |-> PyStr(self._player)]}

\* The actor of a Pool: run_batch applies the function to every input of a
\* chunk and returns the list of the results.
PoolActor_run_batch(self, chunk) ==
    {[st |-> self, ret |-> PyList(MapChunk(chunk.v))]}

\* CumulativeSum.__call__(x), on an instance whose total is total
CumulativeSum_call(total, x) ==
    [total |-> total + x, ret |-> PyTuple(<<total + x, x>>)]

\* The lines that hold the string "Ray".
RayLines == {"Ray is fast"}
\* 1 if "Ray" in line else 0
RayInLine(line) == IF line \in RayLines THEN 1 ELSE 0

\* json.loads(text): the notebook a JSON text stands for
json_loads(text) == IF text.t = "str" THEN text.v ELSE PyNone

\* cell["source"] if cell["cell_type"] == "markdown" else []
MarkdownSource(cell) ==
    IF cell.cell_type = "markdown" THEN cell.source ELSE <<>>

\* The lines of the markdown cells of a notebook, in the order of the cells:
\* nb["cells"], flatten(), the source of each cell, flatten().
MarkdownLines(notebook) ==
    Flatten([k \in DOMAIN notebook.cells |-> MarkdownSource(notebook.cells[k])])

\* The chains of transformations of the notebook's iterators: none (iter1),
\* for_each(CumulativeSum()), and the chain of iter2.
Chains == {"none", "CumulativeSum", "freq"}

\* What the transformations ahead of batch() make of one item of the shard:
\* the item itself, or for iter2 the markdown lines of the notebook whose
\* text the item refers to (ray.get inside the worker).
Elements(fn, item) ==
    IF fn = "freq"
    THEN (IF HasValue(item) THEN MarkdownLines(json_loads(store[item][1]))
          ELSE <<>>)
    ELSE <<item>>

\* The number of elements one item of the iterator is made of: window_width
\* after batch(window_width), 1 otherwise.
Window(fn) == IF fn = "freq" THEN window_width ELSE 1

\* Mutant of NeedsInput: the worker fetches ahead of the transformation.
NeedsInput_ahead(self, fn) == self.items # <<>>

\* The worker must fetch another item of the shard before it can produce
\* its next item: it holds fewer elements than one item takes and the shard
\* is not exhausted.  An element fetched is transformed and handed over
\* before the next one is fetched.
NeedsInput(self, fn) == self.items # <<>> /\ Len(self.cur) < Window(fn)

\* The worker fetches the next item of its shard.
ParallelIteratorWorker_fetch(self, fn) ==
    [self EXCEPT !.items = Tail(@), !.cur = @ \o Elements(fn, Head(self.items))]

\* The first n elements of s (all of s when it is shorter), and the rest.
Take(s, n) == SubSeq(s, 1, IF Len(s) < n THEN Len(s) ELSE n)
Drop(s, n) == SubSeq(s, (IF Len(s) < n THEN Len(s) ELSE n) + 1, Len(s))

\* np.mean of a batch of the values 1 if "Ray" in line else 0
MeanOfBatch(lines) ==
    PyFloat(SumSeq([k \in DOMAIN lines |-> RayInLine(lines[k])]), Len(lines))

\* The actor of a shard: par_iter_next returns the next item of the
\* iterator over the shard, the transformations applied, and raises
\* StopIteration when there is none left.
ParallelIteratorWorker_par_iter_next(self, fn) ==
    IF NeedsInput(self, fn) THEN {}
    ELSE IF self.cur = <<>> THEN {[st |-> self, ret |-> StopIteration]}
    ELSE CASE fn = "CumulativeSum" ->
                LET c == CumulativeSum_call(self.total, Head(self.cur)) IN
                  {[st |-> [self EXCEPT !.cur = Tail(@), !.total = c.total],
                    ret |-> c.ret]}
           [] fn = "freq" ->
                {[st |-> [self EXCEPT !.cur = Drop(@, window_width)],
                  ret |-> MeanOfBatch(Take(self.cur, window_width))]}
           [] OTHER ->
                {[st |-> [self EXCEPT !.cur = Tail(@)],
                  ret |-> PyInt(Head(self.cur))]}

\* The state a constructor leaves, by class.
Construct(cls, args) ==
    CASE cls = "Counter" -> Counter_init
      [] cls = "GoalsScored" -> GoalsScored_init(args[1])
      [] cls = "PoolActor" -> PyNone
      [] cls = "ParallelIteratorWorker" ->
           [items |-> args[1], cur |-> <<>>, total |-> 0]

\* The outcomes of a method: the state it leaves and the value it returns.
Method(meth, self, argv) ==
    CASE meth = "increment" -> Counter_increment(self)
      [] meth = "score" -> GoalsScored_score(self)
      [] meth = "player" -> GoalsScored_player(self)
      [] meth = "run_batch" -> PoolActor_run_batch(self, argv[1][1])
      [] meth = "par_iter_next" ->
           ParallelIteratorWorker_par_iter_next(self, argv[1][1].v)

\* The handle the next Cls.remote() returns.
NewActor == Len(actors) + 1

\* Cls.remote(args): create an actor, an instance of the class in a process
\* of its own.
ActorCreate(cls, args) ==
    /\ rt' = "up"
    /\ actors' = Append(actors, [cls |-> cls, args |-> args,
                                 st |-> Construct(cls, args),
                                 queue |-> <<>>, run |-> <<>>])

\* actor.meth.remote(args): return an object ref at once and send the call
\* to the actor.
ActorCall(a, meth, args) ==
    /\ rt' = "up"
    /\ store' = Append(store, <<>>)
    /\ tasks' = tasks @@ (NewRef :> [fn |-> meth, args |-> args, argv |-> <<>>,
                                     st |-> "pending", slept |-> 0,
                                     ret |-> <<>>, actor |-> a])
    /\ actors' = [actors EXCEPT ![a].queue = Append(@, NewRef)]

\* Mutant of ActorStart: the actor takes its next call while it is still
\* executing another.
ActorStart_concurrent(a) ==
    /\ rt = "up"
    /\ actors[a].queue # <<>>
    /\ LET r == Head(actors[a].queue) IN
         /\ actors' = [actors EXCEPT ![a].queue = Tail(@),
                         ![a].run = Append(@, [ref |-> r, self |-> actors[a].st])]
         /\ tasks' = [tasks EXCEPT ![r].st = "running",
                         ![r].argv = [k \in DOMAIN tasks[r].args |->
                                        Resolve(tasks[r].args[k])]]
    /\ UNCHANGED <<nb, avail, pc, rt, store, loc, got, out>>

\* The actor takes the oldest call of its queue, when it executes no other
\* call; the method reads the state the actor is in.
ActorStart(a) ==
    /\ rt = "up"
    /\ actors[a].queue # <<>>
    /\ actors[a].run = <<>>
    /\ LET r == Head(actors[a].queue) IN
         /\ actors' = [actors EXCEPT ![a].queue = Tail(@),
                         ![a].run = Append(@, [ref |-> r, self |-> actors[a].st])]
         /\ tasks' = [tasks EXCEPT ![r].st = "running",
                         ![r].argv = [k \in DOMAIN tasks[r].args |->
                                        Resolve(tasks[r].args[k])]]
    /\ UNCHANGED <<nb, avail, pc, rt, store, loc, got, out>>

\* The sequence s without its k-th element.
Without(s, k) == [j \in 1..(Len(s) - 1) |-> IF j < k THEN s[j] ELSE s[j + 1]]

\* Mutant of SetState: the attributes are the class's, shared by every
\* instance of the class.
SetState_shared(a, k, st) ==
    [b \in DOMAIN actors |->
       IF b = a THEN [actors[b] EXCEPT !.st = st, !.run = Without(@, k)]
       ELSE IF actors[b].cls = actors[a].cls THEN [actors[b] EXCEPT !.st = st]
       ELSE actors[b]]

\* The actors after actor a has finished its k-th running call in state st:
\* the state is that of this instance alone.
SetState(a, k, st) ==
    [actors EXCEPT ![a].st = st, ![a].run = Without(@, k)]

\* A method returns: its effect on the actor's state is kept and the value
\* it returns becomes the value of the call's object.
ActorFinish(a) ==
    /\ rt = "up"
    /\ \E k \in DOMAIN actors[a].run :
         LET c == actors[a].run[k] IN
           \E e \in Method(tasks[c.ref].fn, c.self, tasks[c.ref].argv) :
              /\ actors' = SetState(a, k, e.st)
              /\ tasks' = [tasks EXCEPT ![c.ref].st = "finished",
                                        ![c.ref].ret = <<e.ret>>]
              /\ store' = [store EXCEPT ![c.ref] = <<e.ret>>]
              /\ avail' = IF Traced THEN Append(avail, c.ref) ELSE avail
    /\ UNCHANGED <<nb, pc, rt, loc, got, out>>

\* The worker of a shard, executing par_iter_next, fetches the next item of
\* the shard.
ActorFetch(a) ==
    /\ rt = "up"
    /\ \E k \in DOMAIN actors[a].run :
         LET c == actors[a].run[k] IN
           /\ tasks[c.ref].fn = "par_iter_next"
           /\ NeedsInput(c.self, tasks[c.ref].argv[1][1].v)
           /\ actors' = [actors EXCEPT ![a].run[k].self =
                           ParallelIteratorWorker_fetch(
                              c.self, tasks[c.ref].argv[1][1].v)]
    /\ UNCHANGED <<nb, avail, pc, rt, store, tasks, loc, got, out>>

(***************************************************************************)
(* Notebook "tour" (remote functions).                                     *)
(***************************************************************************)
\* obj_ref = my_function.remote()
Tour_remote ==
    /\ nb = "tour" /\ pc = "start"
    /\ Submit("my_function", <<>>)
    /\ loc' = [loc EXCEPT !.obj_ref = NewRef]
    /\ pc' = "get1"
    /\ UNCHANGED <<nb, actors, avail, got, out>>

\* ray.get(obj_ref)
Tour_get ==
    /\ nb = "tour" /\ pc = "get1"
    /\ Get(loc.obj_ref)
    /\ out' = Append(out, store[loc.obj_ref])
    /\ pc' = "submit"
    /\ UNCHANGED <<nb, actors, avail, store, tasks, loc>>

\* Mutant of Tour_submit: the loop waits for each future before it makes the
\* next call.
Tour_submit_getInLoop ==
    /\ nb = "tour" /\ pc = "submit"
    /\ Len(loc.futures_list) < NumCalls
    /\ \A k \in DOMAIN loc.futures_list : Ready(loc.futures_list[k])
    /\ Submit("slow_function", <<>>)
    /\ loc' = [loc EXCEPT !.futures_list = Append(@, NewRef)]
    /\ out' = Append(out, <<PyInt(Len(loc.futures_list))>>)
    /\ pc' = IF Len(loc.futures_list) + 1 = NumCalls THEN "getloop" ELSE "submit"
    /\ UNCHANGED <<nb, actors, avail, got>>

\* for i in range(4): future = slow_function.remote();
\*                    futures_list.append(future); print(i)
Tour_submit ==
    /\ nb = "tour" /\ pc = "submit"
    /\ Len(loc.futures_list) < NumCalls
    /\ Submit("slow_function", <<>>)
    /\ loc' = [loc EXCEPT !.futures_list = Append(@, NewRef)]
    /\ out' = Append(out, <<PyInt(Len(loc.futures_list))>>)
    /\ pc' = IF Len(loc.futures_list) + 1 = NumCalls THEN "getloop" ELSE "submit"
    /\ UNCHANGED <<nb, actors, avail, got>>

\* Mutant of Tour_getloop: the loop takes the futures as they become
\* available instead of in the order of the list.
Tour_getloop_asFinished ==
    /\ nb = "tour" /\ pc = "getloop"
    /\ loc.j < Len(loc.futures_list)
    /\ \E k \in DOMAIN loc.futures_list :
          /\ \A g \in DOMAIN got : got[g].ref # loc.futures_list[k]
          /\ Get(loc.futures_list[k])
          /\ out' = Append(out, store[loc.futures_list[k]])
    /\ loc' = [loc EXCEPT !.j = @ + 1]
    /\ pc' = IF loc.j + 1 = Len(loc.futures_list) THEN "shutdown" ELSE "getloop"
    /\ UNCHANGED <<nb, actors, avail, store, tasks>>

\* for future in futures_list: print(ray.get(future))
Tour_getloop ==
    /\ nb = "tour" /\ pc = "getloop"
    /\ loc.j < Len(loc.futures_list)
    /\ Get(loc.futures_list[loc.j + 1])
    /\ out' = Append(out, store[loc.futures_list[loc.j + 1]])
    /\ loc' = [loc EXCEPT !.j = @ + 1]
    /\ pc' = IF loc.j + 1 = Len(loc.futures_list) THEN "shutdown" ELSE "getloop"
    /\ UNCHANGED <<nb, actors, avail, store, tasks>>

(***************************************************************************)
(* Notebook "remo_objs" (remote objects).                                  *)
(***************************************************************************)
\* num_list = [ 23, 42, 93 ]; obj_ref = ray.put(num_list)
Objs_put ==
    /\ nb = "remo_objs" /\ pc = "start"
    /\ Put(PyList(loc.num_list))
    /\ loc' = [loc EXCEPT !.obj_ref = NewRef]
    /\ pc' = "get"
    /\ UNCHANGED <<nb, actors, avail, tasks, got, out>>

\* ray.get(obj_ref)
Objs_get ==
    /\ nb = "remo_objs" /\ pc = "get"
    /\ Get(loc.obj_ref)
    /\ out' = Append(out, store[loc.obj_ref])
    /\ pc' = "remote"
    /\ UNCHANGED <<nb, actors, avail, store, tasks, loc>>

\* calc_ref = my_function.remote(obj_ref)
Objs_remote ==
    /\ nb = "remo_objs" /\ pc = "remote"
    /\ Submit("my_function_sum", <<Ref(loc.obj_ref)>>)
    /\ loc' = [loc EXCEPT !.calc_ref = NewRef]
    /\ pc' = "get_calc"
    /\ UNCHANGED <<nb, actors, avail, got, out>>

\* ray.get(calc_ref)
Objs_get_calc ==
    /\ nb = "remo_objs" /\ pc = "get_calc"
    /\ Get(loc.calc_ref)
    /\ out' = Append(out, store[loc.calc_ref])
    /\ pc' = "put_list"
    /\ UNCHANGED <<nb, actors, avail, store, tasks, loc>>

\* [ray.put(i) for i in range(3)]: one element of the comprehension
Objs_put_list ==
    /\ nb = "remo_objs" /\ pc = "put_list"
    /\ Len(loc.refs) < NumPuts
    /\ Put(PyInt(Len(loc.refs)))
    /\ loc' = [loc EXCEPT !.refs = Append(@, NewRef)]
    /\ pc' = IF Len(loc.refs) + 1 = NumPuts THEN "get_list" ELSE "put_list"
    /\ UNCHANGED <<nb, actors, avail, tasks, got, out>>

\* ray.get([...]) of the list of references
Objs_get_list ==
    /\ nb = "remo_objs" /\ pc = "get_list"
    /\ rt' = "up"
    /\ \A k \in DOMAIN loc.refs : Ready(loc.refs[k])
    /\ loc' = [loc EXCEPT !.values = <<GetList(loc.refs)>>]
    /\ out' = Append(out, <<PyList(GetList(loc.refs))>>)
    /\ pc' = "remote_long"
    /\ UNCHANGED <<nb, actors, avail, store, tasks, got>>

\* obj_ref = long_running_function.remote()
Objs_remote_long ==
    /\ nb = "remo_objs" /\ pc = "remote_long"
    /\ Submit("long_running_function", <<>>)
    /\ loc' = [loc EXCEPT !.obj_ref = NewRef]
    /\ pc' = "try"
    /\ UNCHANGED <<nb, actors, avail, got, out>>

\* try: ray.get(obj_ref, timeout=6): the call begins to wait
Objs_try ==
    /\ nb = "remo_objs" /\ pc = "try"
    /\ rt' = "up"
    /\ loc' = [loc EXCEPT !.waited = 0]
    /\ pc' = "get_timeout"
    /\ UNCHANGED <<nb, actors, avail, store, tasks, got, out>>

\* ray.get(obj_ref, timeout=6) returns the value: the task has finished
\* within the timeout.
Objs_get_in_time ==
    /\ nb = "remo_objs" /\ pc = "get_timeout"
    /\ Get(loc.obj_ref)
    /\ pc' = "shutdown"
    /\ UNCHANGED <<nb, actors, avail, store, tasks, loc, out>>

\* Mutant of Objs_get_timed_out: the get gives up as soon as the object has
\* no value, without waiting for the timeout.
Objs_get_timed_out_early ==
    /\ nb = "remo_objs" /\ pc = "get_timeout"
    /\ rt = "up"
    /\ ~Ready(loc.obj_ref)
    /\ loc' = [loc EXCEPT !.exc = "GetTimeoutError"]
    /\ out' = Append(out, <<PyStr(TimedOutMsg)>>)
    /\ pc' = "shutdown"
    /\ UNCHANGED <<nb, actors, avail, rt, store, tasks, got>>

\* ray.get(obj_ref, timeout=6) raises GetTimeoutError: the timeout has passed
\* and the object has no value.
\* except GetTimeoutError: print(TimedOutMsg)
Objs_get_timed_out ==
    /\ nb = "remo_objs" /\ pc = "get_timeout"
    /\ rt = "up"
    /\ loc.waited = Timeout
    /\ ~Ready(loc.obj_ref)
    /\ loc' = [loc EXCEPT !.exc = "GetTimeoutError"]
    /\ out' = Append(out, <<PyStr(TimedOutMsg)>>)
    /\ pc' = "shutdown"
    /\ UNCHANGED <<nb, actors, avail, rt, store, tasks, got>>

(***************************************************************************)
(* Notebook "remo_func" (remote functions on arrays).  It calls neither    *)
(* ray.init nor ray.shutdown: the first call to Ray launches it.           *)
(***************************************************************************)
\* obj_ref_arr1 = read_array.remote("dat/file_1.txt")
Func_read1 ==
    /\ nb = "remo_func" /\ pc = "start"
    /\ Submit("read_array", <<Lit(PyStr("file_1"))>>)
    /\ loc' = [loc EXCEPT !.obj_ref_arr1 = NewRef]
    /\ pc' = "read2"
    /\ UNCHANGED <<nb, actors, avail, got, out>>

\* obj_ref_arr2 = read_array.remote("dat/file_2.txt")
Func_read2 ==
    /\ nb = "remo_func" /\ pc = "read2"
    /\ Submit("read_array", <<Lit(PyStr("file_2"))>>)
    /\ loc' = [loc EXCEPT !.obj_ref_arr2 = NewRef]
    /\ pc' = "add"
    /\ UNCHANGED <<nb, actors, avail, got, out>>

\* result_obj_ref = add_array.remote(obj_ref_arr1, obj_ref_arr2)
Func_add ==
    /\ nb = "remo_func" /\ pc = "add"
    /\ Submit("add_array", <<Ref(loc.obj_ref_arr1), Ref(loc.obj_ref_arr2)>>)
    /\ loc' = [loc EXCEPT !.result_obj_ref = NewRef]
    /\ pc' = "get_result"
    /\ UNCHANGED <<nb, actors, avail, got, out>>

\* result = ray.get(result_obj_ref); print(...)
Func_get_result ==
    /\ nb = "remo_func" /\ pc = "get_result"
    /\ Get(loc.result_obj_ref)
    /\ loc' = [loc EXCEPT !.result = store[loc.result_obj_ref]]
    /\ out' = Append(out, store[loc.result_obj_ref])
    /\ pc' = "sum1"
    /\ UNCHANGED <<nb, actors, avail, store, tasks>>

\* sum_arr.remote(obj_ref_arr1), the argument of the first ray.get
Func_sum1 ==
    /\ nb = "remo_func" /\ pc = "sum1"
    /\ Submit("sum_arr", <<Ref(loc.obj_ref_arr1)>>)
    /\ loc' = [loc EXCEPT !.tmp = NewRef]
    /\ pc' = "get_sum1"
    /\ UNCHANGED <<nb, actors, avail, got, out>>

\* sum_1 = ray.get(...)
Func_get_sum1 ==
    /\ nb = "remo_func" /\ pc = "get_sum1"
    /\ Get(loc.tmp)
    /\ loc' = [loc EXCEPT !.sum_1 = store[loc.tmp]]
    /\ pc' = "sum2"
    /\ UNCHANGED <<nb, actors, avail, store, tasks, out>>

\* sum_arr.remote(obj_ref_arr2), the argument of the second ray.get
Func_sum2 ==
    /\ nb = "remo_func" /\ pc = "sum2"
    /\ Submit("sum_arr", <<Ref(loc.obj_ref_arr2)>>)
    /\ loc' = [loc EXCEPT !.tmp = NewRef]
    /\ pc' = "get_sum2"
    /\ UNCHANGED <<nb, actors, avail, got, out>>

\* sum_2 = ray.get(...); print(sum_1); print(sum_2)
Func_get_sum2 ==
    /\ nb = "remo_func" /\ pc = "get_sum2"
    /\ Get(loc.tmp)
    /\ loc' = [loc EXCEPT !.sum_2 = store[loc.tmp]]
    /\ out' = out \o <<loc.sum_1, store[loc.tmp]>>
    /\ pc' = "done"
    /\ UNCHANGED <<nb, actors, avail, store, tasks>>

(***************************************************************************)
(* Notebook "remo_meth" (remote classes).                                  *)
(***************************************************************************)
\* counter = Counter.remote()
Meth_counter ==
    /\ nb = "remo_meth" /\ pc = "start"
    /\ ActorCreate("Counter", <<>>)
    /\ loc' = [loc EXCEPT !.counter = NewActor]
    /\ pc' = "inc1"
    /\ UNCHANGED <<nb, avail, store, tasks, got, out>>

\* obj_ref = counter.increment.remote()
Meth_increment ==
    /\ nb = "remo_meth" /\ pc = "inc1"
    /\ ActorCall(loc.counter, "increment", <<>>)
    /\ loc' = [loc EXCEPT !.obj_ref = NewRef]
    /\ pc' = "get1"
    /\ UNCHANGED <<nb, avail, got, out>>

\* ray.get(obj_ref)
Meth_get ==
    /\ nb = "remo_meth" /\ pc = "get1"
    /\ Get(loc.obj_ref)
    /\ pc' = "incs"
    /\ UNCHANGED <<nb, actors, avail, store, tasks, loc, out>>

\* f_list = [counter.increment.remote() for _ in range(3)], one call
Meth_increments ==
    /\ nb = "remo_meth" /\ pc = "incs"
    /\ ActorCall(loc.counter, "increment", <<>>)
    /\ loc' = [loc EXCEPT !.f_list = Append(@, NewRef)]
    /\ pc' = IF Len(loc.f_list) + 1 = NumIncs THEN "get_list" ELSE "incs"
    /\ UNCHANGED <<nb, avail, got, out>>

\* print(ray.get(f_list))
Meth_get_list ==
    /\ nb = "remo_meth" /\ pc = "get_list"
    /\ rt' = "up"
    /\ \A k \in DOMAIN loc.f_list : Ready(loc.f_list[k])
    /\ out' = Append(out, GetList(loc.f_list))
    /\ pc' = "players"
    /\ UNCHANGED <<nb, actors, avail, store, tasks, loc, got>>

\* ronaldo = GoalsScored.remote("Ronaldo"), and likewise neymar and messi
Meth_goals ==
    /\ nb = "remo_meth" /\ pc = "players"
    /\ ActorCreate("GoalsScored", <<Players[Len(loc.players) + 1]>>)
    /\ loc' = [loc EXCEPT !.players = Append(@, NewActor)]
    /\ pc' = IF Len(loc.players) + 1 = Len(Players) THEN "score" ELSE "players"
    /\ UNCHANGED <<nb, avail, store, tasks, got, out>>

\* ronaldo_ref = ronaldo.score.remote(), and likewise neymar_ref and
\* messi_ref
Meth_score ==
    /\ nb = "remo_meth" /\ pc = "score"
    /\ ActorCall(loc.players[Len(loc.score_refs) + 1], "score", <<>>)
    /\ loc' = [loc EXCEPT !.score_refs = Append(@, NewRef)]
    /\ pc' = IF Len(loc.score_refs) + 1 = Len(Players) THEN "player" ELSE "score"
    /\ UNCHANGED <<nb, avail, got, out>>

\* ref.player.remote(), for the next (ref, ref_obj) of the loop
Meth_player ==
    /\ nb = "remo_meth" /\ pc = "player"
    /\ ActorCall(loc.players[loc.i + 1], "player", <<>>)
    /\ loc' = [loc EXCEPT !.tmp = NewRef]
    /\ pc' = "get_player"
    /\ UNCHANGED <<nb, avail, got, out>>

\* ray.get(ref.player.remote())
Meth_get_player ==
    /\ nb = "remo_meth" /\ pc = "get_player"
    /\ Get(loc.tmp)
    /\ loc' = [loc EXCEPT !.name = store[loc.tmp]]
    /\ pc' = "get_goals"
    /\ UNCHANGED <<nb, actors, avail, store, tasks, out>>

\* ray.get(ref_obj); print(f"Player: {...} and goals scored: {...}")
Meth_get_goals ==
    /\ nb = "remo_meth" /\ pc = "get_goals"
    /\ Get(loc.score_refs[loc.i + 1])
    /\ out' = Append(out, <<loc.name, store[loc.score_refs[loc.i + 1]]>>)
    /\ loc' = [loc EXCEPT !.i = @ + 1]
    /\ pc' = IF loc.i + 1 = Len(Players) THEN "shutdown" ELSE "player"
    /\ UNCHANGED <<nb, actors, avail, store, tasks>>

(***************************************************************************)
(* Notebook "pi" (estimating pi): one call of run_epoch, serial or         *)
(* distributed.                                                            *)
(***************************************************************************)
\* Mutant of Pi_remote: the distributed epoch makes one trial fewer.
Pi_remote_short ==
    /\ nb = "pi" /\ pc = "start" /\ loc.distrib
    /\ Submit("distrib_estimate_pi", <<Lit(PyInt(loc.num_samples))>>)
    /\ loc' = [loc EXCEPT !.refs = Append(@, NewRef)]
    /\ pc' = IF Len(loc.refs) + 1 >= loc.num_trials - 1 THEN "get" ELSE "start"
    /\ UNCHANGED <<nb, actors, avail, got, out>>

\* refs = [distrib_estimate_pi.remote(num_samples) for _ in
\* range(num_trials)], one call
Pi_remote ==
    /\ nb = "pi" /\ pc = "start" /\ loc.distrib
    /\ Submit("distrib_estimate_pi", <<Lit(PyInt(loc.num_samples))>>)
    /\ loc' = [loc EXCEPT !.refs = Append(@, NewRef)]
    /\ pc' = IF Len(loc.refs) + 1 = loc.num_trials THEN "get" ELSE "start"
    /\ UNCHANGED <<nb, actors, avail, got, out>>

\* pis = ray.get(refs)
Pi_get ==
    /\ nb = "pi" /\ pc = "get"
    /\ rt' = "up"
    /\ \A k \in DOMAIN loc.refs : Ready(loc.refs[k])
    /\ loc' = [loc EXCEPT !.pis = GetList(loc.refs)]
    /\ pc' = "stats"
    /\ UNCHANGED <<nb, actors, avail, store, tasks, got, out>>

\* pis = [estimate_pi(num_samples) for _ in range(num_trials)], one call
Pi_serial ==
    /\ nb = "pi" /\ pc = "start" /\ ~loc.distrib
    /\ \E v \in estimate_pi(loc.num_samples) :
          loc' = [loc EXCEPT !.pis = Append(@, <<v>>), !.calls = @ + 1]
    /\ pc' = IF Len(loc.pis) + 1 = loc.num_trials THEN "stats" ELSE "start"
    /\ UNCHANGED <<nb, actors, avail, rt, store, tasks, got, out>>

\* duration = time.time() - start; approx_pi = statistics.mean(pis);
\* stdev = statistics.stdev(pis); error = 100.0 * abs(approx_pi - np.pi) /
\* np.pi; return num_samples, duration, approx_pi, stdev, error
Pi_stats ==
    /\ nb = "pi" /\ pc = "stats"
    /\ IF Stdev(loc.pis) = StatisticsError
       THEN \* the exception leaves run_epoch and ends the run of the cell
            /\ out' = Append(out, <<StatisticsError>>)
            /\ pc' = "failed"
       ELSE /\ out' = Append(out, <<PyInt(loc.num_samples), Duration,
                                    Mean(loc.pis), Stdev(loc.pis),
                                    Error(Mean(loc.pis))>>)
            /\ pc' = "shutdown"
    /\ UNCHANGED <<nb, actors, avail, rt, store, tasks, loc, got>>

(***************************************************************************)
(* Notebook "mult_pool" (multiprocessing Pool).  multiprocessing.Pool has  *)
(* worker processes that take the chunks of the input from one queue; the  *)
(* Pool of ray.util.multiprocessing hands the chunks to actors.  Neither   *)
(* says which worker gets which chunk, nor how long a chunk is.            *)
(***************************************************************************)
\* my_function(11)
Pool_call ==
    /\ nb = "mult_pool" /\ pc = "start"
    /\ out' = Append(out, my_function_x(PyInt(11)))
    /\ pc' = "mp_map"
    /\ UNCHANGED <<nb, actors, avail, rt, store, tasks, loc, got>>

\* pool = Pool(); pool.map(my_function, range(50)) of multiprocessing: the
\* chunks of the input are queued for the worker processes
Pool_mp_map ==
    /\ nb = "mult_pool" /\ pc = "mp_map"
    /\ \E c \in 1..Len(loc.xs) :
          loc' = [loc EXCEPT !.mp =
                    [chunks |-> Chunks(loc.xs, c),
                     queue |-> [k \in 1..Len(Chunks(loc.xs, c)) |-> k],
                     workers |-> [w \in 1..NumProcs |-> 0],
                     res |-> [k \in 1..Len(Chunks(loc.xs, c)) |-> <<>>],
                     finished |-> <<>>]]
    /\ pc' = "mp_wait"
    /\ UNCHANGED <<nb, actors, avail, rt, store, tasks, got, out>>

\* A worker process of the multiprocessing pool takes the next chunk.
Mp_take(w) ==
    /\ nb = "mult_pool" /\ pc = "mp_wait"
    /\ loc.mp.workers[w] = 0
    /\ loc.mp.queue # <<>>
    /\ loc' = [loc EXCEPT !.mp.workers[w] = Head(loc.mp.queue),
                          !.mp.queue = Tail(@)]
    /\ UNCHANGED <<nb, actors, avail, pc, rt, store, tasks, got, out>>

\* A worker process has applied my_function to every input of its chunk.
Mp_done(w) ==
    /\ nb = "mult_pool" /\ pc = "mp_wait"
    /\ loc.mp.workers[w] # 0
    /\ LET k == loc.mp.workers[w] IN
         loc' = [loc EXCEPT !.mp.workers[w] = 0,
                            !.mp.res[k] = <<MapChunk(loc.mp.chunks[k])>>,
                            !.mp.finished = Append(@, k)]
    /\ UNCHANGED <<nb, actors, avail, pc, rt, store, tasks, got, out>>

\* Mutant of MpCollect: the results of the chunks in the order in which the
\* workers finished them.
MpCollect_asFinished ==
    Flatten([k \in DOMAIN loc.mp.finished |-> loc.mp.res[loc.mp.finished[k]][1]])

\* The list pool.map returns: the results of the chunks, in the order of the
\* chunks.
MpCollect == Flatten([k \in DOMAIN loc.mp.chunks |-> loc.mp.res[k][1]])

\* for result in pool.map(...): print(result), when every chunk is done
Pool_mp_print ==
    /\ nb = "mult_pool" /\ pc = "mp_wait"
    /\ \A k \in DOMAIN loc.mp.res : loc.mp.res[k] # <<>>
    /\ loc' = [loc EXCEPT !.mp_out = <<MpCollect>>]
    /\ out' = Append(out, PyList(MpCollect))
    /\ pc' = "ray_pool"
    /\ UNCHANGED <<nb, actors, avail, rt, store, tasks, got>>

\* pool = Pool() of ray.util.multiprocessing: one actor per process
Pool_ray_pool ==
    /\ nb = "mult_pool" /\ pc = "ray_pool"
    /\ ActorCreate("PoolActor", <<>>)
    /\ loc' = [loc EXCEPT !.pool = Append(@, NewActor)]
    /\ pc' = IF Len(loc.pool) + 1 = NumProcs THEN "ray_map" ELSE "ray_pool"
    /\ UNCHANGED <<nb, avail, store, tasks, got, out>>

\* pool.map(my_function, range(50)): the input is split into chunks
Pool_ray_map ==
    /\ nb = "mult_pool" /\ pc = "ray_map"
    /\ \E c \in 1..Len(loc.xs) : loc' = [loc EXCEPT !.chunks = Chunks(loc.xs, c)]
    /\ pc' = "ray_submit"
    /\ UNCHANGED <<nb, actors, avail, rt, store, tasks, got, out>>

\* pool.map: the next chunk is sent to one of the actors
Pool_ray_submit ==
    /\ nb = "mult_pool" /\ pc = "ray_submit"
    /\ \E a \in {loc.pool[k] : k \in DOMAIN loc.pool} :
          ActorCall(a, "run_batch",
                    <<Lit(PyList(loc.chunks[Len(loc.refs) + 1]))>>)
    /\ loc' = [loc EXCEPT !.refs = Append(@, NewRef)]
    /\ pc' = IF Len(loc.refs) + 1 = Len(loc.chunks) THEN "ray_get"
             ELSE "ray_submit"
    /\ UNCHANGED <<nb, avail, got, out>>

\* The elements of a list that ray.get returned, none if it returned
\* nothing.
Elems(o) == IF o = <<>> THEN <<>> ELSE o[1].v

\* for result in pool.map(...): print(result), when every chunk is done: the
\* results of the chunks, in the order of the chunks
Pool_ray_print ==
    /\ nb = "mult_pool" /\ pc = "ray_get"
    /\ rt' = "up"
    /\ \A k \in DOMAIN loc.refs : Ready(loc.refs[k])
    /\ LET res == Flatten([k \in DOMAIN loc.refs |-> Elems(GetList(loc.refs)[k])])
       IN  /\ loc' = [loc EXCEPT !.ray_out = <<res>>]
           /\ out' = Append(out, PyList(res))
    /\ pc' = "shutdown"
    /\ UNCHANGED <<nb, actors, avail, store, tasks, got>>

(***************************************************************************)
(* Notebook "para_iter" (parallel iterators).  The items are partitioned   *)
(* into data shards and an actor produces the data of each shard; the      *)
(* notebook says neither which shard an item goes to nor which shard the   *)
(* next item is fetched from.  A run follows one of the notebook's loops   *)
(* over a gathered iterator (loc.cell): iter1.gather_sync(),               *)
(* iter1.for_each(CumulativeSum()).gather_sync(), or iter2.gather_async(), *)
(* each over shards that are read from their start.                        *)
(***************************************************************************)
Cells == {"gather_sync", "for_each", "gather_async"}

\* A cell of a notebook file.
Cell(type, source) == [cell_type |-> type, source |-> source]

\* n lines, every other one of which holds the string "Ray".
SomeLines(n) == [k \in 1..n |-> IF k % 2 = 1 THEN "Ray is fast" ELSE "an actor"]

\* The notebook files read by Path(".").glob("ex_*.ipynb"): one whose
\* markdown lines fill more than one window, one that holds a single
\* markdown line; each has a code cell too.
LongNotebook ==
    [cells |-> <<Cell("markdown", SomeLines(window_width - 8)),
                 Cell("code", <<"Ray is fast">>),
                 Cell("markdown", SomeLines(9))>>]
ShortNotebook ==
    [cells |-> <<Cell("code", <<"Ray is fast">>),
                 Cell("markdown", <<"an actor">>)>>]
\* The lists of MaxDocs notebook files the glob can give: the long one at
\* any place among short ones.
NotebookFiles ==
    {[k \in 1..MaxDocs |-> IF k = j THEN LongNotebook ELSE ShortNotebook] :
       j \in 1..MaxDocs}

\* nb_items = [ray.put(nb_path.read_text()) for nb_path in ...]: the text of
\* the next notebook file becomes a remote object
Iter2_put ==
    /\ nb = "para_iter" /\ pc = "start" /\ loc.cell = "gather_async"
    /\ Put(PyStr(loc.texts[Len(loc.items) + 1]))
    /\ loc' = [loc EXCEPT !.items = Append(@, NewRef)]
    /\ pc' = IF Len(loc.items) + 1 = Len(loc.texts) THEN "from_items"
             ELSE "start"
    /\ UNCHANGED <<nb, actors, avail, tasks, got, out>>

\* iter1 = ray.util.iter.from_items(items, num_shards=2), and
\* from_items(nb_items, num_shards=3) of iter2: the data shards
Iter_from_items ==
    /\ nb = "para_iter"
    /\ pc = (IF loc.cell = "gather_async" THEN "from_items" ELSE "start")
    /\ rt' = "up"
    /\ \E sh \in Shards(loc.items, loc.num_shards) :
          loc' = [loc EXCEPT !.shards = sh]
    /\ pc' = "workers"
    /\ UNCHANGED <<nb, actors, avail, store, tasks, got, out>>

\* from_items: the actor that produces the data of the next shard
Iter_worker ==
    /\ nb = "para_iter" /\ pc = "workers"
    /\ ActorCreate("ParallelIteratorWorker", <<loc.shards[Len(loc.iter1) + 1]>>)
    /\ loc' = [loc EXCEPT !.iter1 = Append(@, NewActor)]
    /\ pc' = IF Len(loc.iter1) + 1 < loc.num_shards THEN "workers"
             ELSE IF loc.cell = "gather_sync" THEN "gather" ELSE "for_each"
    /\ UNCHANGED <<nb, avail, store, tasks, got, out>>

\* iter1.for_each(CumulativeSum()), and the chain .for_each(...).flatten()
\* ... .batch(window_width).for_each(np.mean) of iter2: the iterator keeps
\* the transformations, nothing is applied yet
Iter_for_each ==
    /\ nb = "para_iter" /\ pc = "for_each"
    /\ rt' = "up"
    /\ loc' = [loc EXCEPT !.fn = IF loc.cell = "for_each" THEN "CumulativeSum"
                                 ELSE "freq"]
    /\ pc' = "gather"
    /\ UNCHANGED <<nb, actors, avail, store, tasks, got, out>>

\* Mutant of Gather: gathering already asks the first shard for an item.
Gather_eager ==
    /\ ActorCall(loc.iter1[1], "par_iter_next", <<Lit(PyStr(loc.fn))>>)
    /\ UNCHANGED <<nb, avail, got, out>>

\* gather_sync() and gather_async() return a local iterator and touch
\* neither a shard nor the runtime's objects.
Gather ==
    /\ rt' = "up"
    /\ UNCHANGED <<nb, actors, avail, store, tasks, got, out>>

\* local_iter1 = iter1.gather_sync(): nothing is fetched yet
Iter_gather_sync ==
    /\ nb = "para_iter" /\ pc = "gather" /\ loc.cell # "gather_async"
    /\ Gather
    /\ loc' = [loc EXCEPT !.local_iter1 = {loc.iter1[k] : k \in DOMAIN loc.iter1}]
    /\ pc' = "next"

\* for item in local_iter1: next() asks a shard that is not exhausted for
\* its next item
Iter_next ==
    /\ nb = "para_iter" /\ pc = "next"
    /\ \E a \in loc.local_iter1 :
          /\ ActorCall(a, "par_iter_next", <<Lit(PyStr(loc.fn))>>)
          /\ loc' = [loc EXCEPT !.shard = a, !.tmp = NewRef,
                       !.nexts = IF loc.shard = NoActor THEN @ + 1 ELSE @]
    /\ pc' = "fetch"
    /\ UNCHANGED <<nb, avail, got, out>>

\* Mutant of Exhausted: the iterator is over once one shard is exhausted.
Exhausted_all(active, a) == {}

\* The shards left to the local iterator once shard a is exhausted.
Exhausted(active, a) == active \ {a}

\* next() waits for the shard's answer: it returns an item, which the loop
\* prints; a shard that has no item left is dropped and next() goes on
Iter_fetch ==
    /\ nb = "para_iter" /\ pc = "fetch"
    /\ Get(loc.tmp)
    /\ IF store[loc.tmp] = <<StopIteration>>
       THEN /\ loc' = [loc EXCEPT !.local_iter1 = Exhausted(@, loc.shard)]
            /\ out' = out
       ELSE /\ loc' = [loc EXCEPT !.shard = NoActor]
            /\ out' = out \o store[loc.tmp]
    /\ pc' = "next"
    /\ UNCHANGED <<nb, actors, avail, store, tasks>>

\* next() raises StopIteration when every shard is exhausted: the loop ends
Iter_stop ==
    /\ nb = "para_iter" /\ pc = "next"
    /\ loc.local_iter1 = {}
    /\ pc' = "shutdown"
    /\ UNCHANGED <<nb, actors, avail, rt, store, tasks, loc, got, out>>

\* iter2.gather_async(): nothing is fetched yet
Iter_gather_async ==
    /\ nb = "para_iter" /\ pc = "gather" /\ loc.cell = "gather_async"
    /\ Gather
    /\ loc' = [loc EXCEPT !.local_iter1 = {loc.iter1[k] : k \in DOMAIN loc.iter1}]
    /\ pc' = "request"

\* for freq in iter2.gather_async(): the first next() asks every shard for
\* its next item, one request after the other
Async_request ==
    /\ nb = "para_iter" /\ pc = "request"
    /\ LET k == Cardinality(loc.futures) + 1 IN
         /\ ActorCall(loc.iter1[k], "par_iter_next", <<Lit(PyStr(loc.fn))>>)
         /\ loc' = [loc EXCEPT !.futures = @ \cup {NewRef}, !.nexts = 1]
         /\ pc' = IF k = loc.num_shards THEN "wait" ELSE "request"
    /\ UNCHANGED <<nb, avail, got, out>>

\* Mutant of Answered: any request is taken, answered or not.
Answered_any(futures) == futures

\* The requests that a shard has answered.
Answered(futures) == {r \in futures : HasValue(r)}

\* The value of an object, None while it has none.
ValueOf(r) == IF HasValue(r) THEN store[r][1] ELSE PyNone

\* next() takes an answer as soon as a shard has given one: for an item, it
\* asks the same shard for its next item and returns the item, which the
\* loop prints; a shard that has no item left is dropped
Async_yield ==
    /\ nb = "para_iter" /\ pc = "wait"
    /\ \E r \in Answered(loc.futures) :
          /\ rt' = "up"
          /\ got' = Append(got, [ref |-> r, val |-> store[r]])
          /\ IF ValueOf(r) = StopIteration
             THEN /\ loc' = [loc EXCEPT !.futures = @ \ {r}]
                  /\ UNCHANGED <<actors, store, tasks, out>>
             ELSE /\ ActorCall(tasks[r].actor, "par_iter_next",
                               <<Lit(PyStr(loc.fn))>>)
                  /\ loc' = [loc EXCEPT !.futures = (@ \ {r}) \cup {NewRef},
                                        !.nexts = @ + 1]
                  /\ out' = out \o store[r]
    /\ pc' = "wait"
    /\ UNCHANGED <<nb, avail>>

\* next() raises StopIteration when every shard is exhausted: the loop ends
Async_stop ==
    /\ nb = "para_iter" /\ pc = "wait"
    /\ loc.futures = {}
    /\ pc' = "shutdown"
    /\ UNCHANGED <<nb, actors, avail, rt, store, tasks, loc, got, out>>

InitLoc(n) ==
    CASE n = "tour" -> {[obj_ref |-> NoRef, futures_list |-> <<>>, j |-> 0]}
      [] n = "remo_objs" ->
           {[num_list |-> l, obj_ref |-> NoRef, calc_ref |-> NoRef,
             refs |-> <<>>, values |-> <<>>, waited |-> 0, exc |-> ""] :
              l \in NumLists}
      [] n = "remo_func" ->
           {[dat |-> [file_1 |-> a1, file_2 |-> a2],
             obj_ref_arr1 |-> NoRef, obj_ref_arr2 |-> NoRef,
             result_obj_ref |-> NoRef, result |-> <<>>, tmp |-> NoRef,
             sum_1 |-> <<>>, sum_2 |-> <<>>] : a1 \in Arrays, a2 \in Arrays}
      [] n = "remo_meth" ->
           {[counter |-> NoActor, obj_ref |-> NoRef, f_list |-> <<>>,
             players |-> <<>>, score_refs |-> <<>>, i |-> 0, tmp |-> NoRef,
             name |-> <<>>]}
      [] n = "pi" ->
           {[num_samples |-> s, num_trials |-> t, distrib |-> d,
             refs |-> <<>>, pis |-> <<>>, calls |-> 0] :
              s \in 1..MaxSamples, t \in 1..MaxTrials, d \in BOOLEAN}
      [] n = "mult_pool" ->
           {[xs |-> Range(MapLen), mp |-> <<>>, mp_out |-> <<>>,
             pool |-> <<>>, chunks |-> <<>>, refs |-> <<>>, ray_out |-> <<>>]}
      [] n = "para_iter" ->
           {[cell |-> c, texts |-> <<>>, items |-> Items,
             num_shards |-> NumShards, shards |-> <<>>, iter1 |-> <<>>,
             fn |-> "none", local_iter1 |-> {}, shard |-> NoActor,
             tmp |-> NoRef, futures |-> {}, nexts |-> 0] :
               c \in {"gather_sync", "for_each"}}
           \cup
           {[cell |-> "gather_async", texts |-> t, items |-> <<>>,
             num_shards |-> NumShards2, shards |-> <<>>, iter1 |-> <<>>,
             fn |-> "none", local_iter1 |-> {}, shard |-> NoActor,
             tmp |-> NoRef, futures |-> {}, nexts |-> 0] :
               t \in NotebookFiles}

Init ==
    /\ nb \in Notebooks
    /\ pc = IF nb = "remo_func" THEN "start" ELSE "init"
    /\ rt = "down"
    /\ store = <<>>
    /\ tasks = <<>>
    /\ actors = <<>>
    /\ avail = <<>>
    /\ loc \in InitLoc(nb)
    /\ got = <<>>
    /\ out = <<>>

\* The kernel runs the next statement of the notebook.
DriverStep ==
    \/ RayInit
    \/ RayShutdown
    \/ Tour_remote
    \/ Tour_get
    \/ Tour_submit
    \/ Tour_getloop
    \/ Objs_put
    \/ Objs_get
    \/ Objs_remote
    \/ Objs_get_calc
    \/ Objs_put_list
    \/ Objs_get_list
    \/ Objs_remote_long
    \/ Objs_try
    \/ Objs_get_in_time
    \/ Objs_get_timed_out
    \/ Func_read1
    \/ Func_read2
    \/ Func_add
    \/ Func_get_result
    \/ Func_sum1
    \/ Func_get_sum1
    \/ Func_sum2
    \/ Func_get_sum2
    \/ Meth_counter
    \/ Meth_increment
    \/ Meth_get
    \/ Meth_increments
    \/ Meth_get_list
    \/ Meth_goals
    \/ Meth_score
    \/ Meth_player
    \/ Meth_get_player
    \/ Meth_get_goals
    \/ Pi_remote
    \/ Pi_get
    \/ Pi_serial
    \/ Pi_stats
    \/ Pool_call
    \/ Pool_mp_map
    \/ Pool_mp_print
    \/ Pool_ray_pool
    \/ Pool_ray_map
    \/ Pool_ray_submit
    \/ Pool_ray_print
    \/ Iter2_put
    \/ Iter_from_items
    \/ Iter_worker
    \/ Iter_for_each
    \/ Iter_gather_sync
    \/ Iter_next
    \/ Iter_fetch
    \/ Iter_stop
    \/ Iter_gather_async
    \/ Async_request
    \/ Async_yield
    \/ Async_stop

Next ==
    \/ DriverStep
    \/ \E r \in DOMAIN tasks : TaskStart(r)
    \/ \E r \in DOMAIN tasks : TaskFinish(r)
    \/ \E a \in DOMAIN actors : ActorStart(a)
    \/ \E a \in DOMAIN actors : ActorFinish(a)
    \/ \E a \in DOMAIN actors : ActorFetch(a)
    \/ \E w \in 1..NumProcs : Mp_take(w)
    \/ \E w \in 1..NumProcs : Mp_done(w)
    \/ Tick

Spec == Init /\ [][Next]_vars

\* An actor that has a call to take or to finish.
ActorStep ==
    \E a \in DOMAIN actors : ActorStart(a) \/ ActorFinish(a) \/ ActorFetch(a)

\* The kernel runs the next statement whenever it can, and the actors'
\* processes run.
FairSpec == Spec /\ WF_vars(DriverStep) /\ WF_vars(ActorStep)

(***************************************************************************)
(* Claims.                                                                 *)
(***************************************************************************)
\* The reference the driver is blocked on in ray.get, if any.
WaitRef ==
    CASE nb = "tour" /\ pc = "get1" -> loc.obj_ref
      [] nb = "tour" /\ pc = "getloop" -> loc.futures_list[loc.j + 1]
      [] nb = "remo_objs" /\ pc = "get" -> loc.obj_ref
      [] nb = "remo_objs" /\ pc = "get_calc" -> loc.calc_ref
      [] nb = "remo_func" /\ pc = "get_result" -> loc.result_obj_ref
      [] nb = "remo_func" /\ pc \in {"get_sum1", "get_sum2"} -> loc.tmp
      [] nb = "remo_meth" /\ pc = "get1" -> loc.obj_ref
      [] nb = "remo_meth" /\ pc = "get_player" -> loc.tmp
      [] nb = "remo_meth" /\ pc = "get_goals" -> loc.score_refs[loc.i + 1]
      [] nb = "para_iter" /\ pc = "fetch" -> loc.tmp
      [] OTHER -> NoRef

\* The driver is in a ray.get whose object has its value.
ReadyGet == WaitRef # NoRef /\ HasValue(WaitRef)

\* C1: a .remote() call returns its object reference without waiting for any
\* task: whenever the driver stands at a submission, the submission can be
\* taken, whatever state the tasks submitted so far are in, and every
\* reference the driver holds names an object of the store.
C1_RemoteReturnsAtOnce ==
    /\ (nb = "tour" /\ pc = "start") => ENABLED Tour_remote
    /\ (nb = "tour" /\ pc = "submit") => ENABLED Tour_submit
    /\ nb = "tour" =>
          \A k \in DOMAIN loc.futures_list :
             /\ loc.futures_list[k] \in DOMAIN tasks
             /\ tasks[loc.futures_list[k]].fn = "slow_function"

\* C1 witness: the driver holds 4 references and none of the 4 tasks has
\* finished (nor even started).
C1_Witness ==
    /\ nb = "tour"
    /\ Len(loc.futures_list) = NumCalls
    /\ \A k \in 1..NumCalls :
          /\ tasks[loc.futures_list[k]].st = "pending"
          /\ ~HasValue(loc.futures_list[k])

\* C2: ray.get never returns before the task producing the reference has
\* finished, it returns exactly the value that task returned (42 for
\* my_function), and once the task has finished the blocked get returns:
\* the driver does not stay in gets whose objects have their values.
C2_GetBlocksUntilFinished ==
    /\ [](\A k \in DOMAIN got :
            got[k].ref \in DOMAIN tasks =>
               /\ tasks[got[k].ref].st = "finished"
               /\ got[k].val # <<>>
               /\ got[k].val = tasks[got[k].ref].ret
               /\ tasks[got[k].ref].fn = "my_function" => got[k].val = <<PyInt(42)>>)
    /\ ReadyGet ~> ~ReadyGet

\* C2 witness: the get of my_function's reference has returned 42.
C2_Witness ==
    /\ nb = "tour"
    /\ Len(got) >= 1
    /\ got[1] = [ref |-> loc.obj_ref, val |-> <<PyInt(42)>>]


\* The tasks that have been handed their arguments.
Started == {r \in DOMAIN tasks : tasks[r].st \in {"running", "finished"}}

\* The calls sent to actor a, and those of them the actor has finished.  The
\* references are numbered in the order the calls were made.
CallsOf(a) == {r \in DOMAIN tasks : tasks[r].actor = a}
FinishedOf(a) == {r \in CallsOf(a) : tasks[r].st = "finished"}

\* C3: the Counter actor executes its increment calls one at a time, in the
\* order they were submitted: it never executes two calls at once, its value
\* is the number of increments it has executed so far, the i-th submitted
\* increment returns i, ray.get(obj_ref) of the first call returns 1, and
\* ray.get(f_list) of the next three calls prints [2, 3, 4].
C3_CounterSerial ==
    (nb = "remo_meth" /\ loc.counter # NoActor) =>
       LET a == loc.counter IN
         /\ Len(actors[a].run) <= 1
         /\ actors[a].st.value = Cardinality(FinishedOf(a))
         /\ \A r \in FinishedOf(a) :
               store[r] = <<PyInt(Cardinality({q \in CallsOf(a) : q <= r}))>>
         /\ \A k \in DOMAIN got :
               got[k].ref = loc.obj_ref => got[k].val = <<PyInt(1)>>
         /\ out # <<>> =>
               out[1] = [k \in 1..NumIncs |-> <<PyInt(k + 1)>>]

\* The first increment has been fetched and the list of the three next
\* ones has been printed.
C3_Witness ==
    /\ nb = "remo_meth"
    /\ \E k \in DOMAIN got : got[k].ref = loc.obj_ref
    /\ Len(loc.f_list) = NumIncs
    /\ out # <<>>
    /\ actors[loc.counter].st.value = NumIncs + 1

C5_ArgsResolvedBeforeStart ==
    /\ \A r \in Started :
         \A k \in DOMAIN tasks[r].args :
            tasks[r].args[k].k = "ref" =>
               /\ HasValue(tasks[r].args[k].r)
               /\ tasks[r].argv[k] = store[tasks[r].args[k].r]
               /\ tasks[r].argv[k] # <<>>
               /\ tasks[r].args[k].r \in DOMAIN tasks =>
                    tasks[tasks[r].args[k].r].st = "finished"
    /\ \A r \in DOMAIN tasks :
         tasks[r].st = "finished" =>
            /\ tasks[r].fn = "my_function_sum" =>
                 /\ tasks[r].ret = <<PyInt(SumSeq(loc.num_list))>>
                 /\ loc.num_list = <<23, 42, 93>> => tasks[r].ret = <<PyInt(158)>>
            /\ tasks[r].fn = "add_array" =>
                 tasks[r].ret = <<PyList([i \in 1..ArrLen |->
                                    loc.dat.file_1[i] + loc.dat.file_2[i]])>>
            /\ tasks[r].fn = "sum_arr" =>
                 tasks[r].ret \in {<<PyInt(SumSeq(loc.dat.file_1))>>,
                                   <<PyInt(SumSeq(loc.dat.file_2))>>}

\* C5 witness: add_array has finished, after both read_array tasks.
C5_Witness ==
    /\ nb = "remo_func"
    /\ loc.result_obj_ref \in DOMAIN tasks
    /\ tasks[loc.result_obj_ref].st = "finished"
    /\ tasks[loc.obj_ref_arr1].st = "finished"
    /\ tasks[loc.obj_ref_arr2].st = "finished"
    /\ loc.dat.file_1 # loc.dat.file_2

\* C7: ray.get(obj_ref, timeout=6) ends in one of two ways.  If the task has
\* finished, it returns the task's value 42 and nothing is printed.  If not,
\* the 6 seconds have passed, GetTimeoutError is raised, the handler prints
\* the message and no value is returned.  The get never waits past its
\* timeout, and a value is returned only by a task that slept its 10
\* seconds.
C7_TimeoutRaises ==
    /\ [][(InTimedGet /\ pc' # "get_timeout") =>
            IF HasValue(loc.obj_ref)
            THEN /\ got' = Append(got, [ref |-> loc.obj_ref, val |-> <<PyInt(42)>>])
                 /\ tasks[loc.obj_ref].slept = SleepSecs
                 /\ out' = out
                 /\ loc'.exc = ""
            ELSE /\ loc.waited = Timeout
                 /\ loc'.exc = "GetTimeoutError"
                 /\ out' = Append(out, <<PyStr(TimedOutMsg)>>)
                 /\ got' = got]_vars
    /\ [](InTimedGet => loc.waited <= Timeout)
    /\ [](nb = "remo_objs" /\ loc.exc = "GetTimeoutError" =>
            \A k \in DOMAIN got : got[k].ref # loc.obj_ref)

\* C7 witness: the get has timed out on the unfinished task and the handler
\* has printed its message.
C7_Witness ==
    /\ nb = "remo_objs"
    /\ loc.exc = "GetTimeoutError"
    /\ out[Len(out)] = <<PyStr(TimedOutMsg)>>
    /\ tasks[loc.obj_ref].st # "finished"
    /\ loc.waited = Timeout

\* C9: every GoalsScored actor keeps a state of its own.  The actor created
\* for the k-th player keeps that player's name, its player() calls return
\* it, its first score() returns a value between 1 and 5, which is then the
\* actor's goals (0 before), the loop prints the player's name with that
\* score, and the state of an actor changes only when a call made on that
\* very actor finishes.
C9_ActorsOwnState ==
    /\ [](nb = "remo_meth" =>
           /\ \A k \in DOMAIN loc.players :
                 LET a == loc.players[k] IN
                   /\ actors[a].st._player = Players[k]
                   /\ \A r \in FinishedOf(a) :
                         tasks[r].fn = "player" => store[r] = <<PyStr(Players[k])>>
                   /\ IF k \in DOMAIN loc.score_refs /\ HasValue(loc.score_refs[k])
                      THEN /\ store[loc.score_refs[k]] \in
                                 {<<PyInt(g)>> : g \in MinGoals..MaxGoals}
                           /\ actors[a].st._goals = store[loc.score_refs[k]][1].v
                      ELSE actors[a].st._goals = 0
           /\ \A k \in DOMAIN out :
                 k > 1 => out[k] = <<<<PyStr(Players[k - 1])>>,
                                     store[loc.score_refs[k - 1]]>>)
    /\ [][\A a \in DOMAIN actors :
             actors'[a].st # actors[a].st =>
                /\ Len(actors'[a].run) < Len(actors[a].run)
                /\ \A b \in DOMAIN actors \ {a} : actors'[b].st = actors[b].st]_vars

\* The three players have been printed, and two of them have scored
\* different numbers of goals.
C9_Witness ==
    /\ nb = "remo_meth"
    /\ Len(out) = Len(Players) + 1
    /\ actors[loc.players[1]].st._goals # actors[loc.players[2]].st._goals
    /\ \A k \in DOMAIN loc.players : actors[loc.players[k]].st._goals > 0

\* ray.get(refs) for a list, as the driver of each notebook keeps it.
ListGets ==
    CASE nb = "remo_objs" /\ loc.values # <<>> ->
            {[refs |-> loc.refs, vals |-> loc.values[1]]}
      [] nb = "remo_meth" /\ out # <<>> ->
            {[refs |-> loc.f_list, vals |-> out[1]]}
      [] nb = "pi" /\ loc.distrib /\ pc \in {"stats", "shutdown", "done"} ->
            {[refs |-> loc.refs, vals |-> loc.pis]}
      [] OTHER -> {}

\* C6: ray.get of a list of references returns a list of the same length
\* whose i-th element is the value of the i-th reference, whatever the order
\* in which the tasks finished: for a task, the value that task returned;
\* for the puts of 0, 1, 2, the list [0, 1, 2].
C6_GetListKeepsOrder ==
    /\ \A g \in ListGets :
          /\ Len(g.vals) = Len(g.refs)
          /\ \A i \in DOMAIN g.refs :
                /\ g.vals[i] # <<>>
                /\ g.refs[i] \in DOMAIN tasks => g.vals[i] = tasks[g.refs[i]].ret
    /\ (nb = "remo_objs" /\ loc.values # <<>>) =>
          loc.values[1] = [i \in 1..NumPuts |-> <<PyInt(i - 1)>>]

\* The tasks of an epoch finished in another order than they were submitted
\* in, with different estimates, and the list has been fetched.
C6_Witness ==
    /\ nb = "pi" /\ loc.distrib /\ pc = "stats"
    /\ Len(avail) = Len(loc.refs)
    /\ avail # loc.refs
    /\ \E i, j \in DOMAIN loc.pis : loc.pis[i] # loc.pis[j]

Count(s, x) == Cardinality({i \in DOMAIN s : s[i] = x})

\* The lists s and t hold the same elements the same number of times.
SameItems(s, t) ==
    \A x \in {s[i] : i \in DOMAIN s} \cup {t[i] : i \in DOMAIN t} :
       Count(s, x) = Count(t, x)

\* The loop over the gathered iterator has ended.
IterOver == nb = "para_iter" /\ pc \in {"shutdown", "done"}

C16_LoopPrintsInSubmissionOrder ==
    (nb = "tour" /\ pc \in {"getloop", "shutdown", "done"}) =>
       /\ Len(loc.futures_list) = NumCalls
       /\ loc.j <= NumCalls
       /\ Len(got) = 1 + loc.j
       /\ Len(out) = 1 + NumCalls + loc.j
       /\ \A k \in 1..loc.j :
             /\ got[1 + k].ref = loc.futures_list[k]
             /\ out[1 + NumCalls + k] = tasks[loc.futures_list[k]].ret
             /\ out[1 + NumCalls + k] # <<>>
       /\ pc \in {"shutdown", "done"} <=> loc.j = NumCalls

\* The loop has printed the value of the first future and waits for the
\* second, whose task has not finished, while the tasks of the third and the
\* fourth have, with another value than the first.
C16_Witness ==
    /\ nb = "tour" /\ pc = "getloop"
    /\ loc.j = 1
    /\ ~HasValue(loc.futures_list[2])
    /\ HasValue(loc.futures_list[3])
    /\ HasValue(loc.futures_list[4])
    /\ store[loc.futures_list[3]] # store[loc.futures_list[1]]

\* The number of times estimate_pi has been evaluated: by the driver in a
\* serial epoch, by the tasks that have finished in a distributed one.
Evaluations == IF loc.distrib THEN Len(avail) ELSE loc.calls

\* The estimates an epoch has computed, in the order of its trials.
Estimates ==
    IF loc.distrib THEN [k \in DOMAIN loc.refs |-> tasks[loc.refs[k]].ret]
    ELSE loc.pis

\* run_epoch has ended: it has returned or raised.
EpochOver == nb = "pi" /\ out # <<>>

\* run_epoch has evaluated estimate_pi(num_samples) exactly num_trials
\* times, and its result is a 5-tuple whose first element is num_samples and
\* whose third is the mean of these num_trials estimates.
EpochResult ==
    /\ Evaluations = loc.num_trials
    /\ Len(Estimates) = loc.num_trials
    /\ \A k \in DOMAIN Estimates :
          /\ Estimates[k] # <<>>
          /\ Estimates[k][1] \in estimate_pi(loc.num_samples)
    /\ Len(out) = 1
    /\ Len(out[1]) = 5
    /\ out[1][1] = PyInt(loc.num_samples)
    /\ out[1][3].t = "float"
    /\ out[1][3].d = loc.num_trials * loc.num_samples
    /\ out[1][3].v = SumSeq([k \in DOMAIN Estimates |-> Estimates[k][1].v])
    /\ out[1][4].t = "sqrt"

\* C15, as stated: for any num_samples and num_trials, in either mode,
\* estimate_pi(num_samples) is evaluated exactly num_trials times and
\* run_epoch returns the 5-tuple with num_samples first and the mean of the
\* estimates third.
C15_Original ==
    nb = "pi" =>
       /\ Evaluations <= loc.num_trials
       /\ EpochOver => EpochResult

\* C15, amended: for any num_samples >= 1 and num_trials >= 2, a serial and
\* a distributed epoch are the same computation: in either mode
\* estimate_pi(num_samples) is never evaluated more than num_trials times,
\* and run_epoch ends having evaluated it exactly num_trials times and
\* returns the 5-tuple with num_samples first and the mean of these
\* estimates third.
C15_SerialAndDistributedAgree ==
    nb = "pi" =>
       /\ Evaluations <= loc.num_trials
       /\ (EpochOver /\ loc.num_trials >= MinTrials) => EpochResult

\* A distributed epoch has returned, its tasks finished in another order
\* than they were submitted in and did not all give the same estimate.
C15_Witness ==
    /\ nb = "pi" /\ loc.distrib /\ pc = "shutdown"
    /\ Len(out) = 1
    /\ avail # loc.refs
    /\ \E i, j \in DOMAIN loc.pis : loc.pis[i] # loc.pis[j]
    /\ out[1][4].v > 0

\* The steps of the driver that call Ray, ray.init and ray.shutdown apart.
RayCall ==
    \/ Tour_remote \/ Tour_get \/ Tour_submit \/ Tour_getloop
    \/ Objs_put \/ Objs_get \/ Objs_remote \/ Objs_get_calc \/ Objs_put_list
    \/ Objs_get_list \/ Objs_remote_long \/ Objs_try \/ Objs_get_in_time
    \/ Objs_get_timed_out
    \/ Func_read1 \/ Func_read2 \/ Func_add \/ Func_get_result \/ Func_sum1
    \/ Func_get_sum1 \/ Func_sum2 \/ Func_get_sum2
    \/ Meth_counter \/ Meth_increment \/ Meth_get \/ Meth_increments
    \/ Meth_get_list \/ Meth_goals \/ Meth_score \/ Meth_player
    \/ Meth_get_player \/ Meth_get_goals
    \/ Pi_remote \/ Pi_get
    \/ Pool_ray_pool \/ Pool_ray_map \/ Pool_ray_submit \/ Pool_ray_print
    \/ Iter2_put \/ Iter_from_items \/ Iter_worker \/ Iter_for_each
    \/ Iter_gather_sync \/ Iter_next \/ Iter_fetch
    \/ Iter_gather_async \/ Async_request \/ Async_yield

\* C14, as stated: in every notebook ray.init comes before the first call to
\* Ray and ray.shutdown after the last one: every call to Ray finds the
\* runtime started by ray.init and not shut down, and a notebook that has
\* run to its end has shut the runtime down.
C14_Original ==
    /\ [][RayCall => rt = "up"]_vars
    /\ [](pc = "done" => rt = "stopped")

\* C14, amended: in every notebook but the remote functions one, ray.init
\* comes before the first call to Ray and ray.shutdown after the last one.
\* The remote functions notebook calls neither: its first call to Ray, and
\* only that one, finds the runtime down and launches it, and at the end of
\* the notebook the runtime is still up.  In no notebook is a call to Ray
\* made after ray.shutdown, and nothing restarts a runtime shut down.
C14_Lifecycle ==
    /\ [][RayCall => \/ rt = "up"
                     \/ nb = "remo_func" /\ pc = "start" /\ rt = "down"]_vars
    /\ [](nb # "remo_func" => (rt = "down" <=> pc = "init"))
    /\ [](pc = "done" =>
            IF nb = "remo_func" THEN rt = "up" ELSE rt = "stopped")
    /\ [](rt = "stopped" => pc = "done")
    /\ [][rt = "stopped" => rt' = "stopped"]_vars

\* A notebook has run to its end between ray.init and ray.shutdown: it has
\* put objects, made remote calls and fetched their values, and the runtime
\* is shut down.
C14_Witness ==
    /\ nb = "remo_objs" /\ pc = "done"
    /\ rt = "stopped"
    /\ tasks # <<>>
    /\ got # <<>>
    /\ loc.values # <<>>

\* The actors that produce the data of the shards.
ShardActors == {a \in DOMAIN actors : actors[a].cls = "ParallelIteratorWorker"}

\* The state the worker of a shard is in: that of the call it is executing,
\* if any.
Worker(a) ==
    IF actors[a].run # <<>> THEN actors[a].run[1].self ELSE actors[a].st

\* The worker of a shard holds every item of the shard and has neither
\* fetched an item nor applied a transformation.
Untouched(a) ==
    /\ actors[a].run = <<>>
    /\ actors[a].queue = <<>>
    /\ actors[a].st = [items |-> actors[a].args[1], cur |-> <<>>, total |-> 0]

\* The requests for the next item of a shard.
ParIterCalls == {r \in DOMAIN tasks : tasks[r].fn = "par_iter_next"}

Transformed(a) ==
    Cardinality({r \in ParIterCalls :
                   /\ tasks[r].actor = a
                   /\ tasks[r].st = "finished"
                   /\ tasks[r].ret # <<StopIteration>>})

\* The number of items the worker of a shard has fetched from the shard.
Fetched(a) == Len(actors[a].args[1]) - Len(Worker(a).items)

\* C12: with gather_sync, the transformation given to for_each is applied
\* to each element before the next item is fetched from the source actor:
\* the worker of a shard never holds more than one item fetched and not yet
\* transformed, the items it has fetched are those it has handed over plus
\* that one, and the total of CumulativeSum is the sum of the items handed
\* over, those that come first in the shard.
C12_FetchOrdering ==
    (nb = "para_iter" /\ loc.cell # "gather_async") =>
       \A a \in ShardActors :
          /\ Len(Worker(a).cur) <= 1
          /\ Fetched(a) = Transformed(a) + Len(Worker(a).cur)
          /\ Worker(a).total =
                IF loc.fn = "CumulativeSum"
                THEN SumSeq(SubSeq(actors[a].args[1], 1, Transformed(a)))
                ELSE 0

\* C12 witness: in the loop over iter1.for_each(CumulativeSum()), the worker
\* of a shard has handed over an item, transformed, and has fetched the next
\* one, which is not transformed yet.
C12_Witness ==
    /\ nb = "para_iter" /\ loc.cell = "for_each"
    /\ \E a \in ShardActors :
          /\ Transformed(a) = 1
          /\ Len(Worker(a).cur) = 1
          /\ Worker(a).total = actors[a].args[1][1]
          /\ Worker(a).cur[1] = actors[a].args[1][2]

\* The items the iterator over a shard of iter2 produces: the means of the
\* windows of window_width lines (the last one possibly shorter) over the
\* markdown lines of the notebooks of the shard.
FreqItems(shard) ==
    LET lines == Flatten([k \in DOMAIN shard |-> Elements("freq", shard[k])])
        windows == Chunks(lines, window_width)
    IN  [k \in DOMAIN windows |-> MeanOfBatch(windows[k])]

\* An answer taken by next() that holds an item.
IsItem(g) == g.val # <<>> /\ g.val # <<StopIteration>>

\* The items next() has delivered, in the order of delivery: all of them,
\* and those of one shard.
Delivered ==
    LET s == SelectSeq(got, IsItem) IN [k \in DOMAIN s |-> s[k].val[1]]
DeliveredOf(a) ==
    LET s == SelectSeq(got, LAMBDA g : IsItem(g) /\ tasks[g.ref].actor = a)
    IN  [k \in DOMAIN s |-> s[k].val[1]]

\* s is the beginning of t.
IsPrefix(s, t) == Len(s) <= Len(t) /\ s = SubSeq(t, 1, Len(s))

\* The loop over the gathered iterator is inside gather_async's next().
AsyncLoop == nb = "para_iter" /\ loc.cell = "gather_async"

\* C13: with gather_async, the items of one shard are delivered in that
\* shard's order and none twice (what has been delivered of a shard is the
\* beginning of what the shard produces), the loop prints what is
\* delivered, when the loop ends every item of every shard has been
\* delivered exactly once, and between shards there is no order: whenever
\* several shards have answered, the answer of any of them can be the next
\* one delivered.
C13_AsyncOrderPerShard ==
    AsyncLoop =>
       /\ \A a \in ShardActors :
             /\ IsPrefix(DeliveredOf(a), FreqItems(actors[a].args[1]))
             /\ IterOver => DeliveredOf(a) = FreqItems(actors[a].args[1])
       /\ out = Delivered
       /\ pc = "wait" =>
             \A r \in loc.futures :
                HasValue(r) =>
                   ENABLED (Async_yield /\ got'[Len(got') ].ref = r)

\* C13 witness: two shards have both answered with an item, a later shard
\* has had an item delivered before an earlier one, and one shard produces
\* more than one item.
C13_Witness ==
    /\ AsyncLoop /\ pc = "wait"
    /\ \E r1, r2 \in loc.futures :
          /\ r1 < r2
          /\ HasValue(r1) /\ HasValue(r2)
          /\ ValueOf(r1) \notin {StopIteration, ValueOf(r2)}
          /\ ValueOf(r2) # StopIteration
          /\ DeliveredOf(tasks[r1].actor) = <<>>
          /\ DeliveredOf(tasks[r2].actor) # <<>>
          /\ tasks[r1].actor < tasks[r2].actor

====
